---- MODULE Spec2Model ----
(***************************************************************************)
(* Model of schwab/orders/options.py: the OptionSymbol codec (constructor, *)
(* parse_symbol, build) and the single-leg / vertical order recipes.       *)
(*                                                                         *)
(* Python str values that the code inspects (split, strptime, float) are   *)
(* sequences of one-character strings.  Python floats are IEEE-754 binary64 *)
(* values, modelled exactly with multi-limb integer arithmetic.            *)
(***************************************************************************)
EXTENDS Integers, Sequences, FiniteSets, TLC

(***************************************************************************)
(* Bounds of the model.                                                    *)
(***************************************************************************)
\* Every text over StrikeAlphabet of at most this length is a strike input.
MaxStrikeLen == 2

\* Order quantities are 1..MaxQuantity.
MaxQuantity == 2

(***************************************************************************)
(* Characters and texts.                                                   *)
(***************************************************************************)
DigitChars == <<"0", "1", "2", "3", "4", "5", "6", "7", "8", "9">>

IsDigit(c) == \E i \in 1..10 : DigitChars[i] = c

DigitVal(c) == (CHOOSE i \in 1..10 : DigitChars[i] = c) - 1

\* All texts over alphabet A of length at most n.
TextsUpTo(A, n) == UNION {[1..k -> A] : k \in 0..n}

\* Number of occurrences of character c in text s.
Count(s, c) == Cardinality({i \in 1..Len(s) : s[i] = c})

\* str.split(sep) for a one-character separator: the pieces between the
\* occurrences of sep, always Count(s, sep) + 1 of them.
RECURSIVE Split(_, _)
Split(s, sep) ==
    IF \A i \in 1..Len(s) : s[i] # sep
    THEN <<s>>
    ELSE LET k == CHOOSE i \in 1..Len(s) :
                      s[i] = sep /\ \A j \in 1..(i - 1) : s[j] # sep
         IN <<SubSeq(s, 1, k - 1)>> \o Split(SubSeq(s, k + 1, Len(s)), sep)

\* str(n) for a natural number n: its decimal digits, no padding.
RECURSIVE IntToText(_)
IntToText(n) ==
    IF n < 10 THEN <<DigitChars[n + 1]>>
    ELSE IntToText(n \div 10) \o <<DigitChars[(n % 10) + 1]>>

\* '%02d' of a number below 100.
TwoDigits(n) == <<DigitChars[(n \div 10) + 1], DigitChars[(n % 10) + 1]>>

\* The natural number written by a text of digits.
RECURSIVE TextToInt(_)
TextToInt(s) ==
    IF Len(s) = 0 THEN 0
    ELSE 10 * TextToInt(SubSeq(s, 1, Len(s) - 1)) + DigitVal(s[Len(s)])

(***************************************************************************)
(* Unsigned multi-limb integers: little-endian sequences of LimbCount      *)
(* limbs in base LimbBase, wide enough for every intermediate of the       *)
(* binary64 operations below.                                              *)
(***************************************************************************)
LimbBits == 15
LimbBase == 2 ^ LimbBits
LimbCount == 6

BigOfInt(n) ==
    [i \in 1..LimbCount |->
        IF i = 1 THEN n % LimbBase
        ELSE IF i = 2 THEN (n \div LimbBase) % LimbBase
        ELSE IF i = 3 THEN n \div (LimbBase * LimbBase)
        ELSE 0]

\* Value of a big integer that fits a machine integer.
IntOfBig(a) == a[1] + LimbBase * a[2] + LimbBase * LimbBase * a[3]

RECURSIVE MulFrom(_, _, _, _)
MulFrom(a, k, i, carry) ==
    IF i > LimbCount THEN <<>>
    ELSE LET t == a[i] * k + carry
         IN <<t % LimbBase>> \o MulFrom(a, k, i + 1, t \div LimbBase)

\* a * k for a small k.
BigMul(a, k) == MulFrom(a, k, 1, 0)

\* Division of a by a small k, from the top limb down: <<quotient, remainder>>.
RECURSIVE DivFrom(_, _, _, _)
DivFrom(a, k, i, rem) ==
    IF i = 0 THEN <<<<>>, rem>>
    ELSE LET t == rem * LimbBase + a[i]
             lower == DivFrom(a, k, i - 1, t % k)
         IN <<Append(lower[1], t \div k), lower[2]>>

BigDivMod(a, k) == DivFrom(a, k, LimbCount, 0)

BigDiv(a, k) == BigDivMod(a, k)[1]

\* a < b.
BigLess(a, b) ==
    \E i \in 1..LimbCount :
        /\ a[i] < b[i]
        /\ \A j \in (i + 1)..LimbCount : a[j] = b[j]

\* a * 2^n and floor(a / 2^n): whole limbs move, the rest is a small factor.
BigShl(a, n) ==
    LET w == n \div LimbBits
        moved == [i \in 1..LimbCount |-> IF i > w THEN a[i - w] ELSE 0]
    IN BigMul(moved, 2 ^ (n % LimbBits))

BigShr(a, n) ==
    LET w == n \div LimbBits
        moved == [i \in 1..LimbCount |-> IF i + w <= LimbCount THEN a[i + w] ELSE 0]
    IN BigDiv(moved, 2 ^ (n % LimbBits))

BigPow2(n) == BigShl(BigOfInt(1), n)

\* Number of bits of a positive big integer.
BitLen(a) ==
    LET top == CHOOSE i \in 1..LimbCount :
                   a[i] # 0 /\ \A j \in (i + 1)..LimbCount : a[j] = 0
    IN LimbBits * (top - 1) + (CHOOSE k \in 1..LimbBits : 2 ^ (k - 1) <= a[top] /\ a[top] < 2 ^ k)

BigAddOne(a) ==
    LET k == CHOOSE i \in 1..LimbCount :
                 a[i] # LimbBase - 1 /\ \A j \in 1..(i - 1) : a[j] = LimbBase - 1
    IN [i \in 1..LimbCount |->
           IF i < k THEN 0 ELSE IF i = k THEN a[i] + 1 ELSE a[i]]

(***************************************************************************)
(* IEEE-754 binary64, positive normal values: [m, sh] stands for           *)
(* m / 2^sh with 2^52 <= m < 2^53.                                         *)
(***************************************************************************)
MantissaBits == 53

\* Round to nearest, ties to even: q is the quotient cut off, cmp is -1, 0
\* or 1 as the part cut off is below, at or above one half.
RoundHalfEven(q, cmp) ==
    IF cmp > 0 \/ (cmp = 0 /\ q[1] % 2 = 1) THEN BigAddOne(q) ELSE q

\* Renormalise a rounded mantissa that reached 2^53.
Normal(m, sh) ==
    IF BigLess(m, BigPow2(MantissaBits)) THEN [m |-> m, sh |-> sh]
    ELSE [m |-> BigDiv(m, 2), sh |-> sh - 1]

\* The binary64 nearest to num / den (num > 0 big, den a small integer):
\* num is scaled by the 2^sh that gives the quotient 53 bits, then rounded.
RoundQuotient(num, den) ==
    LET least  == BigMul(BigPow2(MantissaBits - 1), den)
        guess  == BitLen(least) - BitLen(num)
        sh     == IF BigLess(BigShl(num, guess), least) THEN guess + 1 ELSE guess
        qr     == BigDivMod(BigShl(num, sh), den)
        cmp    == IF 2 * qr[2] > den THEN 1 ELSE IF 2 * qr[2] = den THEN 0 ELSE -1
    IN Normal(RoundHalfEven(qr[1], cmp), sh)

\* The binary64 nearest to the product x * k (k a small integer): the exact
\* product is cut back to 53 bits.
FloatMul(x, k) ==
    LET p    == BigMul(x.m, k)
        cut  == BitLen(p) - MantissaBits
        qr   == BigDivMod(p, 2 ^ cut)
        cmp  == IF 2 * qr[2] > 2 ^ cut THEN 1 ELSE IF 2 * qr[2] = 2 ^ cut THEN 0 ELSE -1
    IN IF cut <= 0 THEN [m |-> BigShl(p, 0 - cut), sh |-> x.sh - cut]
       ELSE Normal(RoundHalfEven(qr[1], cmp), x.sh - cut)

\* x < k for a small integer k.
FloatLess(x, k) == BigLess(x.m, BigMul(BigPow2(x.sh), k))

\* int(x): truncation toward zero of a positive binary64.
FloatToInt(x) == IntOfBig(BigShr(x.m, x.sh))

(***************************************************************************)
(* float(text), for texts over digits, '.', '-' and '+' and any other       *)
(* character that float() rejects wherever it stands (letters such as 'P', *)
(* 'C').  Whitespace, '_', exponents, 'inf' and 'nan' are outside the      *)
(* alphabets of the model.  At most four decimals are written.             *)
(***************************************************************************)
Unsigned(s) == IF Len(s) > 0 /\ s[1] \in {"-", "+"} THEN Tail(s) ELSE s

IsFloatText(s) ==
    LET body == Unsigned(s)
    IN /\ \A i \in 1..Len(body) : IsDigit(body[i]) \/ body[i] = "."
       /\ Count(body, ".") <= 1
       /\ \E i \in 1..Len(body) : IsDigit(body[i])

\* The digits of a float text with the point removed, and how many follow it.
DigitsOf(body) == SelectSeq(body, IsDigit)

DecimalsOf(body) ==
    IF Count(body, ".") = 0 THEN 0
    ELSE Len(body) - (CHOOSE i \in 1..Len(body) : body[i] = ".")

RECURSIVE Pow10(_)
Pow10(n) == IF n = 0 THEN 1 ELSE 10 * Pow10(n - 1)

\* float(s) of a valid text: sign in {-1, 0, 1} and, when positive, the
\* binary64 nearest to the decimal written.
PyFloat(s) ==
    LET body == Unsigned(s)
        n    == TextToInt(DigitsOf(body))
    IN IF n = 0 THEN [sign |-> 0]
       ELSE IF s[1] = "-" THEN [sign |-> -1]
       ELSE [sign |-> 1,
             value |-> RoundQuotient(BigOfInt(n), Pow10(DecimalsOf(body)))]

(***************************************************************************)
(* Values of the program.                                                  *)
(***************************************************************************)
None == [kind |-> "None"]

ValueError(message) == [kind |-> "ValueError", message |-> message]

\* datetime.date, datetime.datetime (its time of day reduced to the hour) and
\* str, as the values isinstance() tells apart.
Date(y, m, d) == [kind |-> "date", year |-> y, month |-> m, day |-> d]

DateTime(y, m, d, h) ==
    [kind |-> "datetime", year |-> y, month |-> m, day |-> d, hour |-> h]

Str(text) == [kind |-> "str", text |-> text]

IsLeap(y) == (y % 4 = 0 /\ y % 100 # 0) \/ y % 400 = 0

DaysInMonth(y, m) ==
    IF m = 2 THEN (IF IsLeap(y) THEN 29 ELSE 28)
    ELSE IF m \in {4, 6, 9, 11} THEN 30 ELSE 31

(***************************************************************************)
(* datetime.strptime(text, '%y%m%d').  CPython turns the format into the   *)
(* regular expression                                                      *)
(*   (\d\d)(1[0-2]|0[1-9]|[1-9])(3[0-1]|[1-2]\d|0[1-9]|[1-9]| [1-9])       *)
(* matched at the start of the text, alternatives tried in order with      *)
(* backtracking; text left over after the match is an error, and so is a   *)
(* day the month does not have.                                            *)
(***************************************************************************)
CharAt(s, i) == IF i <= Len(s) THEN s[i] ELSE "<end>"

InRange(c, lo, hi) == IsDigit(c) /\ lo <= DigitVal(c) /\ DigitVal(c) <= hi

\* Lengths of the month alternatives that match at position p, in order.
MonthMatches(s, p) ==
    (IF CharAt(s, p) = "1" /\ InRange(CharAt(s, p + 1), 0, 2) THEN <<2>> ELSE <<>>)
    \o (IF CharAt(s, p) = "0" /\ InRange(CharAt(s, p + 1), 1, 9) THEN <<2>> ELSE <<>>)
    \o (IF InRange(CharAt(s, p), 1, 9) THEN <<1>> ELSE <<>>)

\* The day matched at position p by the first alternative that matches:
\* <<length, day>>, or <<0, 0>> when none does.
DayMatch(s, p) ==
    LET a == CharAt(s, p)
        b == CharAt(s, p + 1)
    IN IF a = "3" /\ InRange(b, 0, 1) THEN <<2, 30 + DigitVal(b)>>
       ELSE IF InRange(a, 1, 2) /\ IsDigit(b) THEN <<2, 10 * DigitVal(a) + DigitVal(b)>>
       ELSE IF a = "0" /\ InRange(b, 1, 9) THEN <<2, DigitVal(b)>>
       ELSE IF InRange(a, 1, 9) THEN <<1, DigitVal(a)>>
       ELSE IF a = " " /\ InRange(b, 1, 9) THEN <<2, DigitVal(b)>>
       ELSE <<0, 0>>

strptime(s) ==
    IF ~(IsDigit(CharAt(s, 1)) /\ IsDigit(CharAt(s, 2))) THEN ValueError("does not match format")
    ELSE
      LET yy     == 10 * DigitVal(s[1]) + DigitVal(s[2])
          months == MonthMatches(s, 3)
          usable == {i \in 1..Len(months) : DayMatch(s, 3 + months[i])[1] > 0}
      IN IF usable = {} THEN ValueError("does not match format")
         ELSE
           LET i     == CHOOSE j \in usable : \A k \in usable : j <= k
               mlen  == months[i]
               dm    == DayMatch(s, 3 + mlen)
               month == TextToInt(SubSeq(s, 3, 2 + mlen))
               year  == IF yy <= 68 THEN 2000 + yy ELSE 1900 + yy
           IN IF 2 + mlen + dm[1] # Len(s) THEN ValueError("unconverted data remains")
              ELSE IF dm[2] > DaysInMonth(year, month)
                   THEN ValueError("day is out of range for month")
                   ELSE Date(year, month, dm[2])

\* Faulty variant: only the first six characters are parsed, whatever follows.
_parse_expiration_date_prefix(expiration_date) ==
    LET n    == IF Len(expiration_date) < 6 THEN Len(expiration_date) ELSE 6
        date == strptime(SubSeq(expiration_date, 1, n))
    IN IF date.kind = "ValueError"
       THEN ValueError("expiration date must follow format [Two digit year][Two digit month][Two digit day]")
       ELSE date

\* _parse_expiration_date: the date, or the one error that replaces whatever
\* strptime raised.
_parse_expiration_date(expiration_date) ==
    LET date == strptime(expiration_date)
    IN IF date.kind = "ValueError"
       THEN ValueError("expiration date must follow format [Two digit year][Two digit month][Two digit day]")
       ELSE date

\* date.strftime('%y%m%d').
strftime(date) ==
    TwoDigits(date.year % 100) \o TwoDigits(date.month) \o TwoDigits(date.day)

(***************************************************************************)
(* Strike texts of the calls.                                              *)
(***************************************************************************)
StrikeAlphabet == {"0", "5", ".", "-"}

ExampleStrikes ==
    {<<"5", "0", "0">>,
     <<"5", "0", "4", "0">>,
     <<"9", "9", "9", ".", "9", "9", "9">>,
     <<"1", "0", "0", "0">>,
     <<"9", "9", "9", "9", ".", "9", "9", "9">>,
     <<"1", "0", "0", "0", "0">>,
     <<"1", "0", "0">>,
     <<"9", "9", ".", "9", "9", "9">>,
     <<"1", ".", "0", "0", "1">>,
     <<"0", ".", "0", "0", "0", "5">>,
     <<"5", "C">>,
     <<"P", "5">>}

StrikeTexts == TextsUpTo(StrikeAlphabet, MaxStrikeLen) \cup ExampleStrikes

(***************************************************************************)
(* OptionSymbol.                                                           *)
(***************************************************************************)
\* The two branches of "Prepend zeroes based on strike price".
EncodeStrike(strike) ==
    IF FloatLess(strike, 1000)
    THEN <<"0", "0">> \o IntToText(FloatToInt(FloatMul(strike, 1000)))
    ELSE <<"0">> \o IntToText(FloatToInt(FloatMul(strike, 1000)))

\* Faulty variant: the "strike <= 0" check is missing.
StrikeBlock_without_sign_check(strike_price_as_string) ==
    IF ~IsFloatText(strike_price_as_string)
    THEN ValueError("Strike price must be a string representing a positive float")
    ELSE LET strike == PyFloat(strike_price_as_string)
         IN IF strike.sign <= 0
            THEN Str(<<"0", "0", "0">>)
            ELSE Str(EncodeStrike(strike.value))

\* The strike block of __init__: the encoded field, or the error raised.
StrikeBlock(strike_price_as_string) ==
    IF ~IsFloatText(strike_price_as_string)
    THEN ValueError("Strike price must be a string representing a positive float")
    ELSE LET strike == PyFloat(strike_price_as_string)
         IN IF strike.sign <= 0
            THEN ValueError("Strike price must be a string representing a positive float")
            ELSE Str(EncodeStrike(strike.value))

\* The strike block is evaluated once for each strike text of the model and
\* looked up afterwards; every other text is evaluated where it occurs.
StrikeMemo == [s \in StrikeTexts |-> StrikeBlock(s)]

StrikeField(strike_price_as_string) ==
    IF strike_price_as_string \in StrikeTexts
    THEN StrikeMemo[strike_price_as_string]
    ELSE StrikeBlock(strike_price_as_string)

\* Faulty variant: the tokens are accepted in lower case too.
ContractType_any_case(contract_type) ==
    IF contract_type \in {"C", "CALL", "c", "call"} THEN Str("C")
    ELSE IF contract_type \in {"P", "PUT", "p", "put"} THEN Str("P")
    ELSE ValueError("Contract type must be one of 'C', 'CALL', 'P' or 'PUT'")

\* The contract-type block of __init__.
ContractType(contract_type) ==
    IF contract_type \in {"C", "CALL"} THEN Str("C")
    ELSE IF contract_type \in {"P", "PUT"} THEN Str("P")
    ELSE ValueError("Contract type must be one of 'C', 'CALL', 'P' or 'PUT'")

\* The expiration-date block of __init__.
ExpirationDate(expiration_date) ==
    IF expiration_date.kind = "str"
    THEN _parse_expiration_date(expiration_date.text)
    ELSE IF expiration_date.kind = "datetime"
    THEN Date(expiration_date.year, expiration_date.month, expiration_date.day)
    ELSE IF expiration_date.kind = "date"
    THEN expiration_date
    ELSE ValueError("expiration_date must be a string with format %y%m%d (e.g. 240119) or one of datetime.date or datetime.datetime")

\* Faulty variant: the strike is checked before the expiration date.
OptionSymbol_strike_first(underlying_symbol, expiration_date, contract_type, strike_price_as_string) ==
    LET type   == ContractType(contract_type)
        date   == ExpirationDate(expiration_date)
        strike == StrikeField(strike_price_as_string)
    IN IF type.kind = "ValueError" THEN type
       ELSE IF strike.kind = "ValueError" THEN strike
       ELSE IF date.kind = "ValueError" THEN date
       ELSE [kind              |-> "OptionSymbol",
             underlying_symbol |-> underlying_symbol,
             contract_type     |-> type.text,
             expiration_date   |-> date,
             strike_price      |-> strike.text]

\* OptionSymbol(...): the object constructed, or the first error raised.
OptionSymbol(underlying_symbol, expiration_date, contract_type, strike_price_as_string) ==
    LET type   == ContractType(contract_type)
        date   == ExpirationDate(expiration_date)
        strike == StrikeField(strike_price_as_string)
    IN IF type.kind = "ValueError" THEN type
       ELSE IF date.kind = "ValueError" THEN date
       ELSE IF strike.kind = "ValueError" THEN strike
       ELSE [kind              |-> "OptionSymbol",
             underlying_symbol |-> underlying_symbol,
             contract_type     |-> type.text,
             expiration_date   |-> date,
             strike_price      |-> strike.text]

\* Faulty variant: the symbol is cut at its first underscore only.
UnderlyingSplit_first_underscore(symbol) ==
    IF Count(symbol, "_") = 0 THEN None
    ELSE LET k == CHOOSE i \in 1..Len(symbol) :
                      symbol[i] = "_" /\ \A j \in 1..(i - 1) : symbol[j] # "_"
         IN [kind       |-> "pieces",
             underlying |-> SubSeq(symbol, 1, k - 1),
             rest       |-> SubSeq(symbol, k + 1, Len(symbol))]

\* "underlying, rest = symbol.split('_')": the two pieces, or None when the
\* unpacking fails because there are not exactly two.
UnderlyingSplit(symbol) ==
    LET pieces == Split(symbol, "_")
    IN IF Len(pieces) = 2
       THEN [kind |-> "pieces", underlying |-> pieces[1], rest |-> pieces[2]]
       ELSE None

\* Faulty variant: the split on 'P' reports a call.
TypeSplit_put_as_call(rest) ==
    IF Len(Split(rest, "P")) = 2
    THEN [kind            |-> "pieces",
          expiration_date |-> Split(rest, "P")[1],
          strike          |-> Split(rest, "P")[2],
          contract_type   |-> "C"]
    ELSE IF Len(Split(rest, "C")) = 2
    THEN [kind            |-> "pieces",
          expiration_date |-> Split(rest, "C")[1],
          strike          |-> Split(rest, "C")[2],
          contract_type   |-> "C"]
    ELSE ValueError("option must have contract type 'C' r 'P'")

\* The split of rest on 'P', else on 'C': the contract type with the pieces
\* around it, or the error raised when neither split gives two pieces.
TypeSplit(rest) ==
    IF Len(Split(rest, "P")) = 2
    THEN [kind            |-> "pieces",
          expiration_date |-> Split(rest, "P")[1],
          strike          |-> Split(rest, "P")[2],
          contract_type   |-> "P"]
    ELSE IF Len(Split(rest, "C")) = 2
    THEN [kind            |-> "pieces",
          expiration_date |-> Split(rest, "C")[1],
          strike          |-> Split(rest, "C")[2],
          contract_type   |-> "C"]
    ELSE ValueError("option must have contract type 'C' r 'P'")

\* OptionSymbol.parse_symbol(symbol).
parse_symbol(symbol) ==
    LET split == UnderlyingSplit(symbol)
    IN IF split.kind = "None"
       THEN ValueError("option symbol missing underscore '_'")
       ELSE
         LET type_split == TypeSplit(split.rest)
         IN IF type_split.kind = "ValueError" THEN type_split
            ELSE LET expiration_date ==
                         _parse_expiration_date(type_split.expiration_date)
                 IN IF expiration_date.kind = "ValueError" THEN expiration_date
                    ELSE OptionSymbol(split.underlying, expiration_date,
                                      type_split.contract_type, type_split.strike)

\* Faulty variant: the underlying and the date are joined by an underscore.
build_with_underscore(self) ==
    self.underlying_symbol \o <<"_">> \o strftime(self.expiration_date)
        \o <<self.contract_type>> \o self.strike_price

\* OptionSymbol.build().
build(self) ==
    self.underlying_symbol \o <<" ", " ">> \o strftime(self.expiration_date)
        \o <<self.contract_type>> \o self.strike_price

(***************************************************************************)
(* The generic order builder the recipes call: an accumulator of fields,   *)
(* each setter storing its argument and returning the builder, and         *)
(* add_option_leg appending one leg.                                       *)
(***************************************************************************)
OrderBuilder ==
    [kind                     |-> "OrderBuilder",
     session                  |-> "None",
     duration                 |-> "None",
     orderType                |-> "None",
     complexOrderStrategyType |-> "None",
     price                    |-> "None",
     quantity                 |-> "None",
     orderStrategyType        |-> "None",
     orderLegCollection       |-> <<>>]

set_session(b, session) == [b EXCEPT !.session = session]

set_duration(b, duration) == [b EXCEPT !.duration = duration]

set_order_type(b, order_type) == [b EXCEPT !.orderType = order_type]

set_complex_order_strategy_type(b, complex_order_strategy_type) ==
    [b EXCEPT !.complexOrderStrategyType = complex_order_strategy_type]

set_price(b, price) == [b EXCEPT !.price = price]

set_quantity(b, quantity) == [b EXCEPT !.quantity = quantity]

set_order_strategy_type(b, order_strategy_type) ==
    [b EXCEPT !.orderStrategyType = order_strategy_type]

add_option_leg(b, instruction, symbol, quantity) ==
    [b EXCEPT !.orderLegCollection =
        Append(@, [instruction |-> instruction,
                   symbol      |-> symbol,
                   quantity    |-> quantity])]

(***************************************************************************)
(* The recipes, each a chain of builder calls in the order of the source.  *)
(***************************************************************************)
__base_builder == set_duration(set_session(OrderBuilder, "NORMAL"), "DAY")

option_buy_to_open_market(symbol, quantity) ==
    add_option_leg(
        set_order_strategy_type(
            set_order_type(__base_builder, "MARKET"),
            "SINGLE"),
        "BUY_TO_OPEN", symbol, quantity)

option_buy_to_open_limit(symbol, quantity, price) ==
    add_option_leg(
        set_order_strategy_type(
            set_price(
                set_order_type(__base_builder, "LIMIT"),
                price),
            "SINGLE"),
        "BUY_TO_OPEN", symbol, quantity)

option_sell_to_open_market(symbol, quantity) ==
    add_option_leg(
        set_order_strategy_type(
            set_order_type(__base_builder, "MARKET"),
            "SINGLE"),
        "SELL_TO_OPEN", symbol, quantity)

option_sell_to_open_limit(symbol, quantity, price) ==
    add_option_leg(
        set_order_strategy_type(
            set_price(
                set_order_type(__base_builder, "LIMIT"),
                price),
            "SINGLE"),
        "SELL_TO_OPEN", symbol, quantity)

option_buy_to_close_market(symbol, quantity) ==
    add_option_leg(
        set_order_strategy_type(
            set_order_type(__base_builder, "MARKET"),
            "SINGLE"),
        "BUY_TO_CLOSE", symbol, quantity)

\* Faulty variant: the price is not set.
option_buy_to_close_limit_without_price(symbol, quantity, price) ==
    add_option_leg(
        set_order_strategy_type(
            set_order_type(__base_builder, "LIMIT"),
            "SINGLE"),
        "BUY_TO_CLOSE", symbol, quantity)

option_buy_to_close_limit(symbol, quantity, price) ==
    add_option_leg(
        set_order_strategy_type(
            set_price(
                set_order_type(__base_builder, "LIMIT"),
                price),
            "SINGLE"),
        "BUY_TO_CLOSE", symbol, quantity)

option_sell_to_close_market(symbol, quantity) ==
    add_option_leg(
        set_order_strategy_type(
            set_order_type(__base_builder, "MARKET"),
            "SINGLE"),
        "SELL_TO_CLOSE", symbol, quantity)

option_sell_to_close_limit(symbol, quantity, price) ==
    add_option_leg(
        set_order_strategy_type(
            set_price(
                set_order_type(__base_builder, "LIMIT"),
                price),
            "SINGLE"),
        "SELL_TO_CLOSE", symbol, quantity)

bull_call_vertical_open(long_call_symbol, short_call_symbol, quantity, net_debit) ==
    add_option_leg(
        add_option_leg(
            set_order_strategy_type(
                set_quantity(
                    set_price(
                        set_complex_order_strategy_type(
                            set_order_type(__base_builder, "NET_DEBIT"),
                            "VERTICAL"),
                        net_debit),
                    quantity),
                "SINGLE"),
            "BUY_TO_OPEN", long_call_symbol, quantity),
        "SELL_TO_OPEN", short_call_symbol, quantity)

bull_call_vertical_close(long_call_symbol, short_call_symbol, quantity, net_credit) ==
    add_option_leg(
        add_option_leg(
            set_order_strategy_type(
                set_quantity(
                    set_price(
                        set_complex_order_strategy_type(
                            set_order_type(__base_builder, "NET_CREDIT"),
                            "VERTICAL"),
                        net_credit),
                    quantity),
                "SINGLE"),
            "SELL_TO_CLOSE", long_call_symbol, quantity),
        "BUY_TO_CLOSE", short_call_symbol, quantity)

bear_call_vertical_open(short_call_symbol, long_call_symbol, quantity, net_credit) ==
    add_option_leg(
        add_option_leg(
            set_order_strategy_type(
                set_quantity(
                    set_price(
                        set_complex_order_strategy_type(
                            set_order_type(__base_builder, "NET_CREDIT"),
                            "VERTICAL"),
                        net_credit),
                    quantity),
                "SINGLE"),
            "SELL_TO_OPEN", short_call_symbol, quantity),
        "BUY_TO_OPEN", long_call_symbol, quantity)

bear_call_vertical_close(short_call_symbol, long_call_symbol, quantity, net_debit) ==
    add_option_leg(
        add_option_leg(
            set_order_strategy_type(
                set_quantity(
                    set_price(
                        set_complex_order_strategy_type(
                            set_order_type(__base_builder, "NET_DEBIT"),
                            "VERTICAL"),
                        net_debit),
                    quantity),
                "SINGLE"),
            "BUY_TO_CLOSE", short_call_symbol, quantity),
        "SELL_TO_CLOSE", long_call_symbol, quantity)

bull_put_vertical_open(long_put_symbol, short_put_symbol, quantity, net_credit) ==
    add_option_leg(
        add_option_leg(
            set_order_strategy_type(
                set_quantity(
                    set_price(
                        set_complex_order_strategy_type(
                            set_order_type(__base_builder, "NET_CREDIT"),
                            "VERTICAL"),
                        net_credit),
                    quantity),
                "SINGLE"),
            "BUY_TO_OPEN", long_put_symbol, quantity),
        "SELL_TO_OPEN", short_put_symbol, quantity)

bull_put_vertical_close(long_put_symbol, short_put_symbol, quantity, net_debit) ==
    add_option_leg(
        add_option_leg(
            set_order_strategy_type(
                set_quantity(
                    set_price(
                        set_complex_order_strategy_type(
                            set_order_type(__base_builder, "NET_DEBIT"),
                            "VERTICAL"),
                        net_debit),
                    quantity),
                "SINGLE"),
            "SELL_TO_CLOSE", long_put_symbol, quantity),
        "BUY_TO_CLOSE", short_put_symbol, quantity)

bear_put_vertical_open(short_put_symbol, long_put_symbol, quantity, net_debit) ==
    add_option_leg(
        add_option_leg(
            set_order_strategy_type(
                set_quantity(
                    set_price(
                        set_complex_order_strategy_type(
                            set_order_type(__base_builder, "NET_DEBIT"),
                            "VERTICAL"),
                        net_debit),
                    quantity),
                "SINGLE"),
            "SELL_TO_OPEN", short_put_symbol, quantity),
        "BUY_TO_OPEN", long_put_symbol, quantity)

\* Faulty variant: the two legs are appended in the other order.
bear_put_vertical_close_legs_swapped(short_put_symbol, long_put_symbol, quantity, net_credit) ==
    add_option_leg(
        add_option_leg(
            set_order_strategy_type(
                set_quantity(
                    set_price(
                        set_complex_order_strategy_type(
                            set_order_type(__base_builder, "NET_CREDIT"),
                            "VERTICAL"),
                        net_credit),
                    quantity),
                "SINGLE"),
            "SELL_TO_CLOSE", long_put_symbol, quantity),
        "BUY_TO_CLOSE", short_put_symbol, quantity)

bear_put_vertical_close(short_put_symbol, long_put_symbol, quantity, net_credit) ==
    add_option_leg(
        add_option_leg(
            set_order_strategy_type(
                set_quantity(
                    set_price(
                        set_complex_order_strategy_type(
                            set_order_type(__base_builder, "NET_CREDIT"),
                            "VERTICAL"),
                        net_credit),
                    quantity),
                "SINGLE"),
            "BUY_TO_CLOSE", short_put_symbol, quantity),
        "SELL_TO_CLOSE", long_put_symbol, quantity)

(***************************************************************************)
(* Inputs of the calls.                                                    *)
(***************************************************************************)
Underlyings == {<<"Q">>, <<"S", "P", "C">>, <<"B", "_", "B">>, <<>>}

DateTexts ==
    {<<"2", "4", "0", "4", "2", "0">>,
     <<"2", "4", "0", "2", "2", "9">>,
     <<"2", "3", "0", "2", "2", "9">>,
     <<"9", "9", "1", "3", "0", "1">>,
     <<"6", "8", "0", "1", "0", "1">>,
     <<"6", "9", "0", "1", "0", "1">>,
     <<"2", "4", "4", "2", "0">>,
     <<"2", "4", "1", "2">>,
     <<"2", "4", "0", "4", "C", "0">>,
     <<"2", "4", "0", "4", "2", "0", "1">>,
     <<>>}

ExpirationInputs ==
    {Str(d) : d \in DateTexts}
        \cup {Date(2024, 4, 20), Date(1999, 12, 31), DateTime(2024, 4, 20, 15), None}

ContractTypes == {"C", "CALL", "P", "PUT", "c", "put", "X"}

\* What a caller may put between the underlying and the date, and between
\* the date and the strike, of a symbol handed to parse_symbol.
Separators == {<<"_">>, <<>>, <<"_", "_">>}

TypeTexts == {<<"P">>, <<"C">>, <<>>, <<"P", "C">>, <<"C", "P">>, <<"C", "C">>}

OrderSymbols == {"AAPL_240420C00150000", "AAPL_240420C00160000"}

Quantities == 1..MaxQuantity

Prices == {"1.50", "0.05"}

(***************************************************************************)
(* State: the call being made, what it returned or raised (None while it   *)
(* has not run), and the OptionSymbol the caller holds from a successful   *)
(* construction.                                                           *)
(***************************************************************************)
VARIABLES call, ret, self

vars == <<call, ret, self>>

(***************************************************************************)
(* The calls a caller can make, with their arguments.                      *)
(***************************************************************************)
ConstructCall ==
    \E u \in Underlyings, e \in ExpirationInputs, t \in ContractTypes, s \in StrikeTexts :
        call = [op                     |-> "OptionSymbol",
                underlying_symbol      |-> u,
                expiration_date        |-> e,
                contract_type          |-> t,
                strike_price_as_string |-> s]

\* parse_symbol(symbol), the symbol put together by the caller from an
\* underlying, a separator, a date text, a type text and a strike text.
ParseCall ==
    \E u \in Underlyings, sep \in Separators, d \in DateTexts, t \in TypeTexts,
       s \in StrikeTexts :
        call = [op     |-> "parse_symbol",
                symbol |-> u \o sep \o d \o t \o s,
                parts  |-> [underlying |-> u, separator |-> sep, date |-> d,
                            type |-> t, strike |-> s]]

SingleNames == {"buy_to_open", "sell_to_open", "buy_to_close", "sell_to_close"}

MarketCall ==
    \E n \in SingleNames, symbol \in OrderSymbols, quantity \in Quantities :
        call = [op |-> "option_" \o n \o "_market", symbol |-> symbol,
                quantity |-> quantity]

LimitCall ==
    \E n \in SingleNames, symbol \in OrderSymbols, quantity \in Quantities,
       price \in Prices :
        call = [op |-> "option_" \o n \o "_limit", symbol |-> symbol,
                quantity |-> quantity, price |-> price]

VerticalNames == {"bull_call", "bear_call", "bull_put", "bear_put"}

VerticalCall ==
    \E n \in VerticalNames, oc \in {"open", "close"}, long_symbol \in OrderSymbols,
       short_symbol \in OrderSymbols, quantity \in Quantities, net_price \in Prices :
        call = [op |-> n \o "_vertical_" \o oc, long_symbol |-> long_symbol,
                short_symbol |-> short_symbol, quantity |-> quantity,
                net_price |-> net_price]

Init ==
    /\ ConstructCall \/ ParseCall \/ MarketCall \/ LimitCall \/ VerticalCall
    /\ ret = None
    /\ self = None

Pending(op) == call.op = op /\ ret.kind = "None"

\* OptionSymbol(underlying_symbol, expiration_date, contract_type, strike).
Construct ==
    /\ Pending("OptionSymbol")
    /\ LET result == OptionSymbol(call.underlying_symbol, call.expiration_date,
                                  call.contract_type, call.strike_price_as_string)
       IN /\ ret' = result
          /\ self' = IF result.kind = "OptionSymbol" THEN result ELSE None
    /\ UNCHANGED call

\* self.build() on the symbol just constructed.
Build ==
    /\ call.op = "OptionSymbol"
    /\ ret.kind = "OptionSymbol"
    /\ call' = [op |-> "build"]
    /\ ret' = Str(build(self))
    /\ UNCHANGED self

\* OptionSymbol.parse_symbol(symbol).
ParseSymbol ==
    /\ Pending("parse_symbol")
    /\ ret' = parse_symbol(call.symbol)
    /\ UNCHANGED <<call, self>>

\* OptionSymbol.parse_symbol on the text build() just returned.
ParseBuilt ==
    /\ call.op = "build"
    /\ call' = [op |-> "parse_symbol", symbol |-> ret.text, parts |-> None]
    /\ ret' = parse_symbol(ret.text)
    /\ UNCHANGED self

OptionBuyToOpenMarket ==
    /\ Pending("option_buy_to_open_market")
    /\ ret' = option_buy_to_open_market(call.symbol, call.quantity)
    /\ UNCHANGED <<call, self>>

OptionBuyToOpenLimit ==
    /\ Pending("option_buy_to_open_limit")
    /\ ret' = option_buy_to_open_limit(call.symbol, call.quantity, call.price)
    /\ UNCHANGED <<call, self>>

OptionSellToOpenMarket ==
    /\ Pending("option_sell_to_open_market")
    /\ ret' = option_sell_to_open_market(call.symbol, call.quantity)
    /\ UNCHANGED <<call, self>>

OptionSellToOpenLimit ==
    /\ Pending("option_sell_to_open_limit")
    /\ ret' = option_sell_to_open_limit(call.symbol, call.quantity, call.price)
    /\ UNCHANGED <<call, self>>

OptionBuyToCloseMarket ==
    /\ Pending("option_buy_to_close_market")
    /\ ret' = option_buy_to_close_market(call.symbol, call.quantity)
    /\ UNCHANGED <<call, self>>

OptionBuyToCloseLimit ==
    /\ Pending("option_buy_to_close_limit")
    /\ ret' = option_buy_to_close_limit(call.symbol, call.quantity, call.price)
    /\ UNCHANGED <<call, self>>

OptionSellToCloseMarket ==
    /\ Pending("option_sell_to_close_market")
    /\ ret' = option_sell_to_close_market(call.symbol, call.quantity)
    /\ UNCHANGED <<call, self>>

OptionSellToCloseLimit ==
    /\ Pending("option_sell_to_close_limit")
    /\ ret' = option_sell_to_close_limit(call.symbol, call.quantity, call.price)
    /\ UNCHANGED <<call, self>>

BullCallVerticalOpen ==
    /\ Pending("bull_call_vertical_open")
    /\ ret' = bull_call_vertical_open(call.long_symbol, call.short_symbol, call.quantity,
                                    call.net_price)
    /\ UNCHANGED <<call, self>>

BullCallVerticalClose ==
    /\ Pending("bull_call_vertical_close")
    /\ ret' = bull_call_vertical_close(call.long_symbol, call.short_symbol, call.quantity,
                                    call.net_price)
    /\ UNCHANGED <<call, self>>

BearCallVerticalOpen ==
    /\ Pending("bear_call_vertical_open")
    /\ ret' = bear_call_vertical_open(call.short_symbol, call.long_symbol, call.quantity,
                                    call.net_price)
    /\ UNCHANGED <<call, self>>

BearCallVerticalClose ==
    /\ Pending("bear_call_vertical_close")
    /\ ret' = bear_call_vertical_close(call.short_symbol, call.long_symbol, call.quantity,
                                    call.net_price)
    /\ UNCHANGED <<call, self>>

BullPutVerticalOpen ==
    /\ Pending("bull_put_vertical_open")
    /\ ret' = bull_put_vertical_open(call.long_symbol, call.short_symbol, call.quantity,
                                    call.net_price)
    /\ UNCHANGED <<call, self>>

BullPutVerticalClose ==
    /\ Pending("bull_put_vertical_close")
    /\ ret' = bull_put_vertical_close(call.long_symbol, call.short_symbol, call.quantity,
                                    call.net_price)
    /\ UNCHANGED <<call, self>>

BearPutVerticalOpen ==
    /\ Pending("bear_put_vertical_open")
    /\ ret' = bear_put_vertical_open(call.short_symbol, call.long_symbol, call.quantity,
                                    call.net_price)
    /\ UNCHANGED <<call, self>>

BearPutVerticalClose ==
    /\ Pending("bear_put_vertical_close")
    /\ ret' = bear_put_vertical_close(call.short_symbol, call.long_symbol, call.quantity,
                                    call.net_price)
    /\ UNCHANGED <<call, self>>

Next ==
    \/ Construct
    \/ Build
    \/ ParseSymbol
    \/ ParseBuilt
    \/ OptionBuyToOpenMarket
    \/ OptionBuyToOpenLimit
    \/ OptionSellToOpenMarket
    \/ OptionSellToOpenLimit
    \/ OptionBuyToCloseMarket
    \/ OptionBuyToCloseLimit
    \/ OptionSellToCloseMarket
    \/ OptionSellToCloseLimit
    \/ BullCallVerticalOpen
    \/ BullCallVerticalClose
    \/ BearCallVerticalOpen
    \/ BearCallVerticalClose
    \/ BullPutVerticalOpen
    \/ BullPutVerticalClose
    \/ BearPutVerticalOpen
    \/ BearPutVerticalClose

Spec == Init /\ [][Next]_vars

\* The constructor, build() and the re-parse of what build() returned.
InitConstruct == ConstructCall /\ ret = None /\ self = None

NextConstruct == Construct \/ Build \/ ParseBuilt

SpecConstruct == InitConstruct /\ [][NextConstruct]_vars

\* parse_symbol on the symbols a caller puts together.
InitParse == ParseCall /\ ret = None /\ self = None

NextParse == ParseSymbol

SpecParse == InitParse /\ [][NextParse]_vars

\* The order recipes.
InitRecipes == (MarketCall \/ LimitCall \/ VerticalCall) /\ ret = None /\ self = None

NextRecipes ==
    \/ OptionBuyToOpenMarket
    \/ OptionBuyToOpenLimit
    \/ OptionSellToOpenMarket
    \/ OptionSellToOpenLimit
    \/ OptionBuyToCloseMarket
    \/ OptionBuyToCloseLimit
    \/ OptionSellToCloseMarket
    \/ OptionSellToCloseLimit
    \/ BullCallVerticalOpen
    \/ BullCallVerticalClose
    \/ BearCallVerticalOpen
    \/ BearCallVerticalClose
    \/ BullPutVerticalOpen
    \/ BullPutVerticalClose
    \/ BearPutVerticalOpen
    \/ BearPutVerticalClose

SpecRecipes == InitRecipes /\ [][NextRecipes]_vars


(***************************************************************************)
(* Properties.  The inputs are read from the call, the outcome from ret.   *)
(***************************************************************************)
ConstructorRan == call.op = "OptionSymbol" /\ ret.kind # "None"

ParseRan == call.op = "parse_symbol" /\ ret.kind # "None"

\* parse_symbol ran on a symbol the caller put together / on build()'s text.
ParsedCallerSymbol == ParseRan /\ self.kind = "None"

ParsedBuiltText == ParseRan /\ self.kind = "OptionSymbol"

SameSymbol(a, b) ==
    /\ a.underlying_symbol = b.underlying_symbol
    /\ a.expiration_date = b.expiration_date
    /\ a.contract_type = b.contract_type
    /\ a.strike_price = b.strike_price

\* The text before and after the one occurrence of character c in s.
Before(s, c) == SubSeq(s, 1, (CHOOSE i \in 1..Len(s) : s[i] = c) - 1)

After(s, c) == SubSeq(s, (CHOOSE i \in 1..Len(s) : s[i] = c) + 1, Len(s))

\* A plain decimal numeral: digits with at most one point, no sign.
DecimalText(s) ==
    /\ \A i \in 1..Len(s) : IsDigit(s[i]) \/ s[i] = "."
    /\ Count(s, ".") <= 1
    /\ \E i \in 1..Len(s) : IsDigit(s[i])

\* floor(S * 1000) of the decimal numeral s, in exact arithmetic.
MilliFloor(s) ==
    LET whole == IF Count(s, ".") = 0 THEN s ELSE Before(s, ".")
        frac  == IF Count(s, ".") = 0 THEN <<>> ELSE After(s, ".")
        three == SubSeq(frac \o <<"0", "0", "0">>, 1, 3)
    IN 1000 * TextToInt(whole) + TextToInt(three)

\* The strike S written by s has at most three decimals and 0 < S < 10000.
ClaimedStrike(s) ==
    /\ DecimalText(s)
    /\ DecimalsOf(s) <= 3
    /\ 0 < MilliFloor(s)
    /\ MilliFloor(s) < 10000000

\* A date written as YYMMDD: six digits, a month 01-12, a day of that month.
YYMMDD(d) ==
    /\ Len(d) = 6
    /\ \A i \in 1..6 : IsDigit(d[i])
    /\ LET yy == TextToInt(SubSeq(d, 1, 2))
           mm == TextToInt(SubSeq(d, 3, 4))
           dd == TextToInt(SubSeq(d, 5, 6))
       IN /\ mm \in 1..12
          /\ dd >= 1
          /\ dd <= DaysInMonth(IF yy <= 68 THEN 2000 + yy ELSE 1900 + yy, mm)

MissingUnderscore == ValueError("option symbol missing underscore '_'")

NoContractTypeSplit == ValueError("option must have contract type 'C' r 'P'")

BadContractTypeError ==
    ValueError("Contract type must be one of 'C', 'CALL', 'P' or 'PUT'")

BadDateFormatError ==
    ValueError("expiration date must follow format [Two digit year][Two digit month][Two digit day]")

BadDateTypeError ==
    ValueError("expiration_date must be a string with format %y%m%d (e.g. 240119) or one of datetime.date or datetime.datetime")

BadStrikeError ==
    ValueError("Strike price must be a string representing a positive float")

(***************************************************************************)
(* C1 as stated: parse_symbol applied to what build() returned succeeds    *)
(* and gives back the underlying, date, contract type and strike field of  *)
(* the symbol that was built.                                              *)
(***************************************************************************)
C1_BuildThenParseRoundTrips ==
    ParsedBuiltText => ret.kind = "OptionSymbol" /\ SameSymbol(ret, self)

(***************************************************************************)
(* C1 as amended: parse_symbol applied to what build() returned never      *)
(* returns an OptionSymbol; it raises, and when the underlying holds no    *)
(* underscore the error is the missing-underscore one, because build()     *)
(* joins underlying and date by two spaces.                                *)
(***************************************************************************)
C1_BuiltTextIsRejected ==
    ParsedBuiltText =>
        /\ ret.kind = "ValueError"
        /\ Count(self.underlying_symbol, "_") = 0 => ret = MissingUnderscore

C1_Witness ==
    /\ ParsedBuiltText
    /\ call.symbol = build(self)
    /\ Count(self.underlying_symbol, "_") = 0
    /\ ret = MissingUnderscore

(***************************************************************************)
(* C2 as stated: for any underlying U, date D written as YYMMDD, type      *)
(* letter T and strike S (at most 3 decimals, 0 < S < 10000),              *)
(* parse_symbol(U_DTS) returns an OptionSymbol with the fields of          *)
(* OptionSymbol(U, D, T, S).                                               *)
(***************************************************************************)
DecodeGrammar ==
    /\ ParsedCallerSymbol
    /\ call.parts.separator = <<"_">>
    /\ call.parts.type \in {<<"P">>, <<"C">>}
    /\ YYMMDD(call.parts.date)
    /\ ClaimedStrike(call.parts.strike)

Direct ==
    OptionSymbol(call.parts.underlying, Str(call.parts.date), call.parts.type[1],
                 call.parts.strike)

ParseAgreesWithDirect ==
    /\ ret.kind = "OptionSymbol"
    /\ Direct.kind = "OptionSymbol"
    /\ SameSymbol(ret, Direct)

StrikeUpTo9999_999(s) ==
    LET body == Unsigned(s)
    IN \/ MilliFloor(body) < 9999999
       \/ MilliFloor(body) = 9999999 /\ DecimalsOf(body) <= 3

C3_StrikeFieldHasEightDigits ==
    (/\ ConstructorRan
     /\ ret.kind = "OptionSymbol"
     /\ StrikeUpTo9999_999(call.strike_price_as_string))
        => Len(ret.strike_price) = 8

(***************************************************************************)
(* C4: each vertical recipe returns a builder with the order type of its   *)
(* row of the table, complex order strategy type VERTICAL, the net price   *)
(* given, and exactly two legs in the row's order, each with the row's     *)
(* instruction, the long or short symbol the row names and the quantity    *)
(* given.                                                                  *)
(***************************************************************************)
VerticalTable ==
    [bull_call_vertical_open |->
         [orderType |-> "NET_DEBIT", leg1 |-> <<"BUY_TO_OPEN", "long">>, leg2 |-> <<"SELL_TO_OPEN", "short">>],
     bull_call_vertical_close |->
         [orderType |-> "NET_CREDIT", leg1 |-> <<"SELL_TO_CLOSE", "long">>, leg2 |-> <<"BUY_TO_CLOSE", "short">>],
     bear_call_vertical_open |->
         [orderType |-> "NET_CREDIT", leg1 |-> <<"SELL_TO_OPEN", "short">>, leg2 |-> <<"BUY_TO_OPEN", "long">>],
     bear_call_vertical_close |->
         [orderType |-> "NET_DEBIT", leg1 |-> <<"BUY_TO_CLOSE", "short">>, leg2 |-> <<"SELL_TO_CLOSE", "long">>],
     bull_put_vertical_open |->
         [orderType |-> "NET_CREDIT", leg1 |-> <<"BUY_TO_OPEN", "long">>, leg2 |-> <<"SELL_TO_OPEN", "short">>],
     bull_put_vertical_close |->
         [orderType |-> "NET_DEBIT", leg1 |-> <<"SELL_TO_CLOSE", "long">>, leg2 |-> <<"BUY_TO_CLOSE", "short">>],
     bear_put_vertical_open |->
         [orderType |-> "NET_DEBIT", leg1 |-> <<"SELL_TO_OPEN", "short">>, leg2 |-> <<"BUY_TO_OPEN", "long">>],
     bear_put_vertical_close |->
         [orderType |-> "NET_CREDIT", leg1 |-> <<"BUY_TO_CLOSE", "short">>, leg2 |-> <<"SELL_TO_CLOSE", "long">>]]

LegSymbol(which) == IF which = "long" THEN call.long_symbol ELSE call.short_symbol

C4_VerticalRecipes ==
    (call.op \in DOMAIN VerticalTable /\ ret.kind # "None") =>
        LET row  == VerticalTable[call.op]
            legs == ret.orderLegCollection
        IN /\ ret.kind = "OrderBuilder"
           /\ ret.orderType = row.orderType
           /\ ret.complexOrderStrategyType = "VERTICAL"
           /\ ret.price = call.net_price
           /\ Len(legs) = 2
           /\ legs[1].instruction = row.leg1[1]
           /\ legs[1].symbol = LegSymbol(row.leg1[2])
           /\ legs[2].instruction = row.leg2[1]
           /\ legs[2].symbol = LegSymbol(row.leg2[2])
           /\ legs[1].quantity = call.quantity
           /\ legs[2].quantity = call.quantity

C4_Witness ==
    /\ call.op = "bear_put_vertical_close"
    /\ call.long_symbol # call.short_symbol
    /\ ret.kind = "OrderBuilder"
    /\ Len(ret.orderLegCollection) = 2

(***************************************************************************)
(* C5: each single-leg recipe returns a builder with session NORMAL,       *)
(* duration DAY, order strategy type SINGLE and exactly one leg with the   *)
(* recipe's instruction and the symbol and quantity given; a market recipe *)
(* sets no price, a limit recipe sets order type LIMIT and the price       *)
(* given.                                                                  *)
(***************************************************************************)
SingleTable ==
    [option_buy_to_open_market |-> [instruction |-> "BUY_TO_OPEN", limit |-> FALSE],
     option_buy_to_open_limit |-> [instruction |-> "BUY_TO_OPEN", limit |-> TRUE],
     option_sell_to_open_market |-> [instruction |-> "SELL_TO_OPEN", limit |-> FALSE],
     option_sell_to_open_limit |-> [instruction |-> "SELL_TO_OPEN", limit |-> TRUE],
     option_buy_to_close_market |-> [instruction |-> "BUY_TO_CLOSE", limit |-> FALSE],
     option_buy_to_close_limit |-> [instruction |-> "BUY_TO_CLOSE", limit |-> TRUE],
     option_sell_to_close_market |-> [instruction |-> "SELL_TO_CLOSE", limit |-> FALSE],
     option_sell_to_close_limit |-> [instruction |-> "SELL_TO_CLOSE", limit |-> TRUE]]

C5_SingleLegRecipes ==
    (call.op \in DOMAIN SingleTable /\ ret.kind # "None") =>
        LET row  == SingleTable[call.op]
            legs == ret.orderLegCollection
        IN /\ ret.kind = "OrderBuilder"
           /\ ret.session = "NORMAL"
           /\ ret.duration = "DAY"
           /\ ret.orderStrategyType = "SINGLE"
           /\ Len(legs) = 1
           /\ legs[1].instruction = row.instruction
           /\ legs[1].symbol = call.symbol
           /\ legs[1].quantity = call.quantity
           /\ IF row.limit
              THEN ret.orderType = "LIMIT" /\ ret.price = call.price
              ELSE ret.price = "None"

C5_Witness ==
    /\ call.op = "option_buy_to_close_limit"
    /\ ret.kind = "OrderBuilder"
    /\ ret.price = call.price
    /\ Len(ret.orderLegCollection) = 1

(***************************************************************************)
(* C6: the constructor gives for 'CALL' what it gives for 'C', and for     *)
(* 'PUT' what it gives for 'P', the other arguments being the same; every  *)
(* other contract-type token raises the invalid-contract-type error.       *)
(***************************************************************************)
C6_ContractTypeNormalization ==
    ConstructorRan =>
        LET u == call.underlying_symbol
            e == call.expiration_date
            t == call.contract_type
            s == call.strike_price_as_string
        IN /\ t = "CALL" => ret = OptionSymbol(u, e, "C", s)
           /\ t = "PUT" => ret = OptionSymbol(u, e, "P", s)
           /\ t \notin {"C", "CALL", "P", "PUT"} => ret = BadContractTypeError

C6_Witness ==
    /\ ConstructorRan
    /\ call.contract_type = "PUT"
    /\ ret.kind = "OptionSymbol"
    /\ ret.contract_type = "P"

(***************************************************************************)
(* C7: parse_symbol raises the invalid-symbol-format error for every       *)
(* symbol with no underscore or more than one, and for every symbol whose  *)
(* remainder after the underscore has neither exactly one 'P' nor exactly  *)
(* one 'C'.                                                                *)
(***************************************************************************)
Rest == After(call.symbol, "_")

C7_MalformedSymbolIsRejected ==
    ParseRan =>
        /\ Count(call.symbol, "_") # 1 => ret = MissingUnderscore
        /\ (/\ Count(call.symbol, "_") = 1
            /\ Count(Rest, "P") # 1
            /\ Count(Rest, "C") # 1) => ret = NoContractTypeSplit

C7_Witness ==
    /\ ParseRan
    /\ Count(call.symbol, "_") = 1
    /\ Count(Rest, "P") = 0
    /\ Count(Rest, "C") = 2
    /\ ret = NoContractTypeSplit

(***************************************************************************)
(* C8: no call with an invalid input returns an OptionSymbol, whatever the *)
(* other inputs: a contract type outside the four tokens, an expiration    *)
(* date of another type or a text that strptime rejects, a strike that is  *)
(* no number or not positive, a symbol without exactly one underscore or   *)
(* without a usable split on 'P' or 'C'.                                   *)
(***************************************************************************)
BadContractType(t) == t \notin {"C", "CALL", "P", "PUT"}

BadDateText(d) == strptime(d).kind = "ValueError"

BadExpiration(e) ==
    \/ e.kind \notin {"str", "date", "datetime"}
    \/ e.kind = "str" /\ BadDateText(e.text)

\* No number, or a number that is zero or negative.
BadStrike(s) ==
    \/ ~IsFloatText(s)
    \/ s[1] = "-"
    \/ \A i \in 1..Len(s) : IsDigit(s[i]) => s[i] = "0"

BadSymbol(symbol) ==
    \/ Count(symbol, "_") # 1
    \/ Count(After(symbol, "_"), "P") # 1 /\ Count(After(symbol, "_"), "C") # 1

\* The letter parse_symbol splits a well-formed remainder on, and the pieces.
SplitLetter == IF Count(Rest, "P") = 1 THEN "P" ELSE "C"

DatePiece == Before(Rest, SplitLetter)

StrikePiece == After(Rest, SplitLetter)

C9_StrayTypeLettersAreRejected ==
    (/\ ParseRan
     /\ Count(call.symbol, "_") = 1
     /\ Count(Rest, "P") + Count(Rest, "C") > 1)
        => ret.kind = "ValueError"

C9_Witness ==
    /\ ParseRan
    /\ Count(call.symbol, "_") = 1
    /\ Count(Rest, "P") = 1
    /\ Count(Rest, "C") = 1
    /\ Len(DatePiece) > 6
    /\ YYMMDD(SubSeq(DatePiece, 1, 6))
    /\ ret.kind = "ValueError"

(***************************************************************************)
(* C10: the error raised is that of the first check that fails: contract   *)
(* type, then expiration date, then strike in the constructor; underscore  *)
(* count, then the split on the type letter, then the expiration date,     *)
(* then the strike in parse_symbol.                                        *)
(***************************************************************************)
C10_FirstFailingCheckIsReported ==
    /\ ConstructorRan =>
         IF BadContractType(call.contract_type) THEN ret = BadContractTypeError
         ELSE IF BadExpiration(call.expiration_date)
              THEN ret = (IF call.expiration_date.kind = "str"
                          THEN BadDateFormatError ELSE BadDateTypeError)
         ELSE IF BadStrike(call.strike_price_as_string) THEN ret = BadStrikeError
         ELSE ret.kind = "OptionSymbol"
    /\ ParseRan =>
         IF Count(call.symbol, "_") # 1 THEN ret = MissingUnderscore
         ELSE IF BadSymbol(call.symbol) THEN ret = NoContractTypeSplit
         ELSE IF BadDateText(DatePiece) THEN ret = BadDateFormatError
         ELSE IF BadStrike(StrikePiece) THEN ret = BadStrikeError
         ELSE ret.kind = "OptionSymbol"

C10_Witness ==
    /\ ConstructorRan
    /\ ~BadContractType(call.contract_type)
    /\ BadExpiration(call.expiration_date)
    /\ BadStrike(call.strike_price_as_string)
    /\ ret = BadDateFormatError

====
